---- MODULE Spec2Model ----
(***************************************************************************)
(* Model of PlanningObjects/Satellite.py: the TLE cache ("element set      *)
(* store") behind Satellite.createEarthSatellite and the time grid and     *)
(* ground track built by Satellite.calculateSatellitePositions.            *)
(*                                                                         *)
(* Text is modelled line by line.  A line is a record: a name line carries *)
(* the satellite name it spells (after .strip()), an element line carries  *)
(* its line number ("1" or "2"), the satellite it belongs to and the       *)
(* revision of the element set.  A file is a sequence of tokens: lines and *)
(* the newline separator written between them.  Instants are seconds since *)
(* midnight of the simulation day; file ages are whole days.               *)
(***************************************************************************)
EXTENDS Integers, Sequences, FiniteSets, TLC

\* ---------------------------------------------------------------- bounds
MaxDay == 11            \* largest cache-file age (days) the clock reaches
MaxRecords == 2         \* most complete 3-line records in one payload
MaxSlots == 3           \* most entries of a Schedule's time and status lists

\* ------------------------------------------------------ program constants
max_age_days == 10      \* Satellite.py:69
GroupSize == 3          \* Satellite.py:100, range(0, len, 3) and [i:i+3]
FetchName == "CUTE"     \* Satellite.py:100, the literal compared against

\* ---------------------------------------------------------------- inputs
Names == {"CUTE", "ISS"}
\* (start_time, end_time, time_step) in seconds: a window that is a multiple
\* of the step, one that is not and starts off the minute, an empty and a
\* reversed window, a zero and a negative step
TimeSpecs ==
    {<<0, 150, 50>>, <<30, 150, 50>>, <<0, 0, 50>>, <<30, 0, 50>>,
     <<0, 150, 0>>, <<0, 150, -60>>}
OldRev == "cached"      \* revision of an element set cached before the run
NewRev == "served"      \* revision served by the network

\* ----------------------------------------------------------------- lines
NameLine(n) == [kind |-> "name", sat |-> n, rev |-> ""]
Line1(n, r) == [kind |-> "1", sat |-> n, rev |-> r]
Line2(n, r) == [kind |-> "2", sat |-> n, rev |-> r]
JunkLine == [kind |-> "junk", sat |-> "", rev |-> ""]
EmptyLine == [kind |-> "empty", sat |-> "", rev |-> ""]
NL == [kind |-> "newline", sat |-> "", rev |-> ""]

Record(n, r) == <<NameLine(n), Line1(n, r), Line2(n, r)>>

\* tle_data[i].strip(): the text of a name line is the name it spells; any
\* other line strips to text that is no satellite name.
Strip(line) == IF line.kind = "name" THEN line.sat ELSE ""

Min(a, b) == IF a <= b THEN a ELSE b

\* -------------------------------------------------------------- payloads
RECURSIVE PayloadBodies(_)
PayloadBodies(k) ==
    IF k = 0 THEN {<<>>}
    ELSE LET prev == PayloadBodies(k - 1)
         IN  prev \cup {p \o Record(n, NewRev) : p \in prev, n \in Names}

\* what may follow the complete records: nothing, a truncated final group,
\* or a line that is no TLE text at all
Tails ==
    {<<>>, <<JunkLine>>}
      \cup {<<NameLine(n)>> : n \in Names}
      \cup {<<NameLine(n), Line1(n, NewRev)>> : n \in Names}

Payloads == {b \o t : b \in PayloadBodies(MaxRecords), t \in Tails}

NoResponse == [status |-> "none", lines |-> <<>>]
Responses ==
    {[status |-> "timeout", lines |-> <<>>],
     [status |-> "http_error", lines |-> <<>>]}
      \cup {[status |-> "ok", lines |-> p] : p \in Payloads}

\* ------------------------------------------------------------ fetchTLEData
\* range(0, len(tle_data), 3)
GroupStarts(tle_data) ==
    {i \in 1..Len(tle_data) : (i - 1) % GroupSize = 0}

\* tle_data[i:i+3]: a slice stops at the end of the list
Group(tle_data, i) ==
    SubSeq(tle_data, i, Min(i + GroupSize - 1, Len(tle_data)))

\* the indices the list comprehension keeps
MatchingStarts(tle_data) ==
    {i \in GroupStarts(tle_data) : Strip(tle_data[i]) = FetchName}

\* the value fetchTLEData returns: the first matching group, or [] when the
\* request raised (timeout, bad status) or no group matched (ValueError)
FetchTLEData(response) ==
    IF response.status # "ok" THEN <<>>
    ELSE LET tle_data == response.lines
             starts == MatchingStarts(tle_data)
         IN  IF starts = {} THEN <<>>
             ELSE Group(tle_data,
                        CHOOSE i \in starts : \A j \in starts : i <= j)

\* ------------------------------------------------------------- saveTLEData
\* '\n'.join(tle_lines) + '\n'
RECURSIVE JoinLines(_)
JoinLines(tle_lines) ==
    IF Len(tle_lines) = 0 THEN <<>>
    ELSE IF Len(tle_lines) = 1 THEN <<tle_lines[1]>>
    ELSE <<tle_lines[1], NL>> \o JoinLines(Tail(tle_lines))

\* a save that loses the name line
SaveTLEData_noname(tle_lines) == JoinLines(Tail(tle_lines)) \o <<NL>>

SaveTLEData(tle_lines) == JoinLines(tle_lines) \o <<NL>>

\* ------------------------------------------------------------ load.tle_file
NoFile == <<[kind |-> "nofile", sat |-> "", rev |-> ""]>>
NoLine == [kind |-> "none", sat |-> "", rev |-> ""]

\* iterating the opened file: the text cut at each newline; tokens that are
\* not separated by a newline run together into one line that is no TLE text
RECURSIVE ReadLines(_, _)
ReadLines(text, cur) ==
    IF Len(text) = 0 THEN (IF cur = NoLine THEN <<>> ELSE <<cur>>)
    ELSE IF text[1] = NL
         THEN <<(IF cur = NoLine THEN EmptyLine ELSE cur)>>
                \o ReadLines(Tail(text), NoLine)
         ELSE ReadLines(Tail(text),
                        IF cur = NoLine THEN text[1] ELSE JunkLine)

\* skyfield's parse_tle_file: slide over the lines; whenever a line 1 is
\* directly followed by a line 2 yield a satellite named by the line before
\* them (if any) and start afresh
RECURSIVE ParseTLELines(_, _, _)
ParseTLELines(lines, b0, b1) ==
    IF Len(lines) = 0 THEN <<>>
    ELSE LET b2 == lines[1]
         IN  IF b2.kind = "2" /\ b1.kind = "1"
             THEN <<[name |-> b0, line1 |-> b1, line2 |-> b2]>>
                    \o ParseTLELines(Tail(lines), NoLine, NoLine)
             ELSE ParseTLELines(Tail(lines), b1, b2)

\* load.tle_file(self.tle_file): the satellites found in the file
LoadTLEFile(file) == ParseTLELines(ReadLines(file, NoLine), NoLine, NoLine)

NoSatellite == [name |-> NoLine, line1 |-> NoLine, line2 |-> NoLine]

\* -------------------------------------------------- createEarthSatellite
\* a staleness test that excludes the boundary
NeedsRefresh_late(file, age) == file = NoFile \/ age > max_age_days

\* not load.exists(tle_file) or load.days_old(tle_file) >= max_age_days
NeedsRefresh(file, age) == file = NoFile \/ age >= max_age_days

\* a refresh that opens the file for writing before it knows what it fetched
FileAfterRefresh_truncating(file, tle_lines) ==
    IF tle_lines # <<>> THEN SaveTLEData(tle_lines) ELSE <<>>

\* the file after the refresh branch: rewritten only when fetchTLEData
\* returned a non-empty list
FileAfterRefresh(file, tle_lines) ==
    IF tle_lines # <<>> THEN SaveTLEData(tle_lines) ELSE file

\* a load that treats a missing file as an empty success
LoadOutcome_silent(file) ==
    IF file # NoFile /\ LoadTLEFile(file) = <<>> THEN "IndexError" ELSE "ok"

\* load.tle_file(self.tle_file)[0]
LoadOutcome(file) ==
    IF file = NoFile THEN "FileNotFoundError"
    ELSE IF LoadTLEFile(file) = <<>> THEN "IndexError"
    ELSE "ok"

FirstSatellite(file) ==
    LET sats == IF file = NoFile THEN <<>> ELSE LoadTLEFile(file)
    IN  IF sats = <<>> THEN NoSatellite ELSE sats[1]

\* ------------------------------------------- calculateSatellitePositions
Abs(a) == IF a < 0 THEN 0 - a ELSE a

\* int(x / y): Python's int() truncates toward zero
IntTrunc(x, y) ==
    IF (x < 0) = (y < 0) THEN Abs(x) \div Abs(y)
    ELSE 0 - (Abs(x) \div Abs(y))

\* total_seconds = (end_time_dt - start_time_dt).total_seconds()
TotalSeconds(start, end) == end - start

\* a step count without the closing fence post
NumSteps_short(start, end, step) == IntTrunc(TotalSeconds(start, end), step)

\* num_steps = int(total_seconds / self.time_step) + 1
NumSteps(start, end, step) == IntTrunc(TotalSeconds(start, end), step) + 1

\* the fields of start_time_dt that are handed to ts.utc: the date, the hour
\* and the minute.  The seconds field is not passed.
StartHour(start) == start \div 3600
StartMinute(start) == (start % 3600) \div 60

\* instants that advance by the whole minutes of i * time_step only
TimePoint_wholeminutes(start, step, i) ==
    StartHour(start) * 3600 + StartMinute(start) * 60
      + ((i * step) \div 60) * 60

\* instant i (from 0) of ts.utc(y, m, d, hour, minute + i * time_step / 60),
\* in seconds
TimePoint(start, step, i) ==
    StartHour(start) * 3600 + StartMinute(start) * 60 + i * step

\* np.arange(num_steps) is empty when num_steps <= 0
TimeGrid(start, end, step) ==
    LET n == NumSteps(start, end, step)
    IN  [k \in 1..(IF n > 0 THEN n ELSE 0) |-> TimePoint(start, step, k - 1)]

\* the element set as the propagator sees it: which satellite's elements and
\* which revision of them
Seed(sat) ==
    (IF sat.line1.sat = FetchName THEN 1 ELSE 2)
      + (IF sat.line2.rev = NewRev THEN 2 ELSE 0)

\* wgs84.subpoint(earth_satellite.at(t)): a deterministic function of the
\* element set and the instant
SubLatitude(sat, t) == ((17 * Seed(sat) + t) % 181) - 90
SubLongitude(sat, t) == ((29 * Seed(sat) + 2 * t) % 360) - 179
SubElevation(sat, t) == 500 + Seed(sat) + (t % 7)

Latitudes(sat, grid) ==
    [k \in 1..Len(grid) |-> SubLatitude(sat, grid[k])]
Longitudes(sat, grid) ==
    [k \in 1..Len(grid) |-> SubLongitude(sat, grid[k])]
\* altitudes that miss the last instant
Altitudes_short(sat, grid) ==
    [k \in 1..(Len(grid) - 1) |-> SubElevation(sat, grid[k])]

Altitudes(sat, grid) ==
    [k \in 1..Len(grid) |-> SubElevation(sat, grid[k])]

\* int(total_seconds / 0): ZeroDivisionError for a Python int step; for a
\* numpy step the quotient is inf or nan and int() raises
ZeroStepErrors == {"ZeroDivisionError", "OverflowError"}

\* ------------------------------------------------------------------ state
VARIABLES
    cache_file,       \* content of tle_file, or NoFile
    days_old,         \* load.days_old(tle_file); 0 while there is no file
    satellite_name, start_time, end_time, time_step,
    longitudes, latitudes, altitudes, times,
    earth_satellite,  \* self.earth_satellite, NoSatellite if none was made
    get_outcome,      \* how Satellite(...) ended: "none" before the first
    calc_outcome,     \* how the last calculateSatellitePositions ended,
                      \* "none" on a new Satellite
    \* the record of the last construction
    response_status,  \* what requests.get met: "none" if it was not called
    name_in_payload,  \* the payload had a group headed by satellite_name
    tle_lines,        \* what fetchTLEData returned
    requests,         \* network requests issued
    writes            \* cache-file writes made

vars == <<cache_file, days_old, satellite_name, start_time, end_time,
          time_step, longitudes, latitudes, altitudes, times,
          earth_satellite, get_outcome, calc_outcome, response_status,
          name_in_payload, tle_lines, requests, writes>>

track == <<longitudes, latitudes, altitudes, times>>
fields == <<satellite_name, start_time, end_time, time_step>>
getlog == <<response_status, name_in_payload, tle_lines, requests, writes,
            get_outcome>>

\* ------------------------------------------- Schedule and Eclipse state
VARIABLES
    time,             \* Schedule.time
    status,           \* Schedule.status
    status_enum,      \* the keys of Schedule.status_enum
    schedule_made,    \* a Schedule was constructed
    schedule_indices, \* Eclipse.schedule_indices, <<>> while no Eclipse
    last_write        \* the last item assignment on status, or NoWrite

svars == <<time, status, status_enum, schedule_made, schedule_indices,
           last_write>>

NoWrite == [index |-> 0, value |-> 0, outcome |-> "none"]

\* no Schedule and no Eclipse yet
ScheduleIdle ==
    /\ time = <<>>
    /\ status = <<>>
    /\ status_enum = {}
    /\ schedule_made = FALSE
    /\ schedule_indices = <<>>
    /\ last_write = NoWrite

\* the cache file as the program may find it when it starts: absent, or
\* holding one record saved by an earlier run, of any age
\* one requests.get in progress: where the construction stands and for how
\* many seconds the socket has received nothing
VARIABLES
    fetch_pc,
    silent_for

fvars == <<fetch_pc, silent_for>>

FetchIdle ==
    /\ fetch_pc = "idle"
    /\ silent_for = 0

\* two constructions that run at the same time on one tle_file: where each
\* stands, what its fetch returned, what the file held when it opened it
\* for writing, and what it found when it loaded it
VARIABLES
    get_pc,
    get_lines,
    get_prior,
    get_read

cvars == <<get_pc, get_lines, get_prior, get_read>>

Procs == {"a", "b"}

NoRead == [file |-> NoFile, outcome |-> "none", in_window |-> FALSE]

NoGetsRunning ==
    /\ get_pc = [p \in Procs |-> "start"]
    /\ get_lines = [p \in Procs |-> <<>>]
    /\ get_prior = [p \in Procs |-> NoFile]
    /\ get_read = [p \in Procs |-> NoRead]

Init ==
    /\ cache_file \in {NoFile} \cup {SaveTLEData(Record(n, OldRev)) : n \in Names}
    /\ days_old \in (IF cache_file = NoFile THEN {0} ELSE 0..MaxDay)
    /\ satellite_name = ""
    /\ start_time = 0
    /\ end_time = 0
    /\ time_step = 0
    /\ longitudes = <<>>
    /\ latitudes = <<>>
    /\ altitudes = <<>>
    /\ times = <<>>
    /\ earth_satellite = NoSatellite
    /\ get_outcome = "none"
    /\ calc_outcome = "none"
    /\ response_status = "none"
    /\ name_in_payload = FALSE
    /\ tle_lines = <<>>
    /\ requests = 0
    /\ writes = 0
    /\ ScheduleIdle
    /\ FetchIdle
    /\ NoGetsRunning

\* the payload has a 3-line group whose name line is the name asked for
NameInPayload(resp, name) ==
    \E i \in GroupStarts(resp.lines) : resp.lines[i] = NameLine(name)

\* the answers the network can give to this construction: none is asked for
\* when the cache is used
Answers(file, age) ==
    IF NeedsRefresh(file, age) THEN Responses ELSE {NoResponse}

\* a fetch that asks once more when it came back empty-handed
RequestCount_retry(refresh, fetched) ==
    IF refresh THEN (IF fetched = <<>> THEN 2 ELSE 1) ELSE 0

\* calls of requests.get in one construction: fetchTLEData is called once,
\* on the refresh branch only, and makes one call whatever comes of it
RequestCount(refresh, fetched) == IF refresh THEN 1 ELSE 0

\* what Satellite.__init__ with createEarthSatellite, fetchTLEData and
\* saveTLEData leaves behind; resp is the network's answer if it is asked
Constructed(name, spec, resp) ==
    LET refresh == NeedsRefresh(cache_file, days_old)
        fetched == IF refresh THEN FetchTLEData(resp) ELSE <<>>
        file == IF refresh THEN FileAfterRefresh(cache_file, fetched)
                ELSE cache_file
        saved == refresh /\ fetched # <<>>
    IN  /\ satellite_name' = name
        /\ start_time' = spec[1]
        /\ end_time' = spec[2]
        /\ time_step' = spec[3]
        /\ longitudes' = <<>>
        /\ latitudes' = <<>>
        /\ altitudes' = <<>>
        /\ times' = <<>>
        /\ response_status' = (IF refresh THEN resp.status ELSE "none")
        /\ name_in_payload' = (refresh /\ NameInPayload(resp, name))
        /\ requests' = RequestCount(refresh, fetched)
        /\ tle_lines' = fetched
        /\ writes' = (IF saved THEN 1 ELSE 0)
        /\ cache_file' = file
        /\ days_old' = (IF saved THEN 0 ELSE days_old)
        /\ get_outcome' = LoadOutcome(file)
        /\ earth_satellite' = FirstSatellite(file)
        /\ calc_outcome' = "none"

\* Satellite(...) as one step
Construct(name, spec, resp) ==
    /\ Constructed(name, spec, resp)
    /\ UNCHANGED <<svars, fvars, cvars>>

\* a calculation that stores the first instant before it has the step count
TimesOnError_early(old, start, step) == <<TimePoint(start, step, 0)>>

\* self.times after a call that raised: every statement that can raise
\* (lines 140-158) comes before the four assignments (lines 161-164), so the
\* attribute still holds what it held
TimesOnError(old, start, step) == old

\* calculateSatellitePositions on a Satellite that was constructed
Calculate ==
    /\ get_outcome = "ok"
    /\ UNCHANGED <<cache_file, days_old, fields, earth_satellite, getlog>>
    /\ UNCHANGED <<svars, fvars, cvars>>
    /\ IF time_step = 0
       THEN /\ calc_outcome' \in ZeroStepErrors
            /\ times' = TimesOnError(times, start_time, time_step)
            /\ UNCHANGED <<longitudes, latitudes, altitudes>>
       ELSE LET grid == TimeGrid(start_time, end_time, time_step)
                stored ==
                    /\ calc_outcome' = "ok"
                    /\ latitudes' = Latitudes(earth_satellite, grid)
                    /\ longitudes' = Longitudes(earth_satellite, grid)
                    /\ altitudes' = Altitudes(earth_satellite, grid)
                    /\ times' = grid
                rejected ==
                    /\ calc_outcome' = "ValueError"
                    /\ times' = TimesOnError(times, start_time, time_step)
                    /\ UNCHANGED <<longitudes, latitudes, altitudes>>
            IN  \* an empty time array may be propagated to an empty track
                \* or refused by the library
                IF Len(grid) = 0 THEN stored \/ rejected ELSE stored

\* a day passes
Tick ==
    /\ cache_file # NoFile
    /\ days_old < MaxDay
    /\ days_old' = days_old + 1
    /\ UNCHANGED <<cache_file, fields, track, earth_satellite, getlog,
                   calc_outcome>>
    /\ UNCHANGED <<svars, fvars, cvars>>

Next ==
    \/ \E name \in Names, spec \in TimeSpecs :
          \E resp \in Answers(cache_file, days_old) :
              Construct(name, spec, resp)
    \/ Calculate
    \/ Tick

Spec == Init /\ [][Next]_vars

\* which operation a step was, read off the step: a construction leaves a
\* Satellite on which nothing was calculated and never ages the file, a tick
\* ages it, a calculation leaves an outcome
ConstructStep == calc_outcome' = "none" /\ days_old' <= days_old
CalculateStep == calc_outcome' # "none" /\ days_old' = days_old

\* ------------------------------------------------- Schedule and Eclipse
\* the keys of the status_enum dictionaries handed to Schedule
StatusEnums == {{0, 1}}
\* status codes found in the lists handed to Schedule: 2 is no key
InitialCodes == {0, 2}
\* status codes a caller assigns
WrittenCodes == {0, 1, 2}

RECURSIVE ListsOver(_, _)
ListsOver(codes, n) ==
    IF n = 0 THEN {<<>>}
    ELSE LET shorter == ListsOver(codes, n - 1)
         IN  shorter \cup {Append(l, c) : l \in {x \in shorter : Len(x) = n - 1},
                                          c \in codes}

StatusLists == ListsOver(InitialCodes, MaxSlots)

\* time: seconds since start_time, one entry per slot
TimeLists == {[k \in 1..n |-> (k - 1) * 60] : n \in (MaxSlots - 1)..MaxSlots}

\* the [first, last] index pairs handed to Eclipse: inside the list, a
\* single slot, reversed, starting below 0, ending past the list
EclipseRanges == {<<0, 1>>, <<1, 1>>, <<2, 1>>, <<-1, 1>>, <<1, MaxSlots>>}

WriteIndices == (0 - 1)..MaxSlots

\* Schedule.__init__: every argument is stored as given
ScheduleConstruct(t, st, enum) ==
    /\ time' = t
    /\ status' = st
    /\ status_enum' = enum
    /\ schedule_made' = TRUE
    /\ schedule_indices' = <<>>
    /\ last_write' = NoWrite
    /\ UNCHANGED <<vars, fvars, cvars>>

\* Python's list[i]: i counts from the end when negative
ListIndexOk(list, i) == (0 - Len(list)) <= i /\ i < Len(list)
ListPosition(list, i) == IF i < 0 THEN i + Len(list) + 1 ELSE i + 1

\* schedule.status[i] = v.  Schedule has no method that writes a status: the
\* list stored by __init__ is a public attribute and a write is a plain item
\* assignment on it, which checks only that i is an index of the list
StatusWrite(i, v) ==
    /\ schedule_made
    /\ IF ListIndexOk(status, i)
       THEN /\ status' = [status EXCEPT ![ListPosition(status, i)] = v]
            /\ last_write' = [index |-> i, value |-> v, outcome |-> "ok"]
       ELSE /\ status' = status
            /\ last_write' = [index |-> i, value |-> v,
                              outcome |-> "IndexError"]
    /\ UNCHANGED <<time, status_enum, schedule_made, schedule_indices>>
    /\ UNCHANGED <<vars, fvars, cvars>>

\* Eclipse.__init__ over the Schedule: every argument is stored as given
EclipseConstruct(indices) ==
    /\ schedule_made
    /\ schedule_indices' = indices
    /\ UNCHANGED <<time, status, status_enum, schedule_made, last_write>>
    /\ UNCHANGED <<vars, fvars, cvars>>

\* no Satellite is involved
InitSchedule ==
    /\ cache_file = NoFile
    /\ days_old = 0
    /\ satellite_name = ""
    /\ start_time = 0
    /\ end_time = 0
    /\ time_step = 0
    /\ longitudes = <<>>
    /\ latitudes = <<>>
    /\ altitudes = <<>>
    /\ times = <<>>
    /\ earth_satellite = NoSatellite
    /\ get_outcome = "none"
    /\ calc_outcome = "none"
    /\ response_status = "none"
    /\ name_in_payload = FALSE
    /\ tle_lines = <<>>
    /\ requests = 0
    /\ writes = 0
    /\ ScheduleIdle
    /\ FetchIdle
    /\ NoGetsRunning

NextSchedule ==
    \/ \E t \in TimeLists, st \in StatusLists, enum \in StatusEnums :
          ScheduleConstruct(t, st, enum)
    \/ \E i \in WriteIndices, v \in WrittenCodes : StatusWrite(i, v)
    \/ \E indices \in EclipseRanges : EclipseConstruct(indices)

SpecSchedule == InitSchedule /\ [][NextSchedule]_<<vars, svars>>

\* a step that assigned a status item: the only step that leaves a write
\* record
WriteStep == last_write' # NoWrite /\ schedule_indices' = schedule_indices

\* ------------------------------------------- one requests.get, second by second
\* requests.get(self.tle_url, timeout=10)
RequestTimeout == 10

\* the timeout of requests.get is the longest the socket may stay silent:
\* it is counted anew from every piece of the response that arrives
TimedOut(silent) == silent >= RequestTimeout

\* Satellite(...) with a cache file that is fresh: no request is made
GetFromCache(name, spec) ==
    /\ fetch_pc = "idle"
    /\ ~NeedsRefresh(cache_file, days_old)
    /\ Constructed(name, spec, NoResponse)
    /\ UNCHANGED <<svars, fvars, cvars>>

\* Satellite(...) up to the call of requests.get: __init__ has stored its
\* arguments and emptied the arrays, createEarthSatellite has decided to
\* refresh and fetchTLEData has sent the request
RequestSent(name, spec) ==
    /\ fetch_pc = "idle"
    /\ NeedsRefresh(cache_file, days_old)
    /\ satellite_name' = name
    /\ start_time' = spec[1]
    /\ end_time' = spec[2]
    /\ time_step' = spec[3]
    /\ longitudes' = <<>>
    /\ latitudes' = <<>>
    /\ altitudes' = <<>>
    /\ times' = <<>>
    /\ earth_satellite' = NoSatellite
    /\ get_outcome' = "none"
    /\ calc_outcome' = "none"
    /\ response_status' = "none"
    /\ name_in_payload' = FALSE
    /\ tle_lines' = <<>>
    /\ requests' = 1
    /\ writes' = 0
    /\ fetch_pc' = "waiting"
    /\ silent_for' = 0
    /\ UNCHANGED <<cache_file, days_old, svars, cvars>>

\* requests.get has been called and has not returned: nothing of the
\* response has arrived yet, or a part of it has
Pending == fetch_pc \in {"waiting", "receiving"}

\* a second in which nothing arrives on the socket
SecondPasses ==
    /\ Pending
    /\ ~TimedOut(silent_for)
    /\ silent_for' = silent_for + 1
    /\ UNCHANGED <<fetch_pc, vars, svars, cvars>>

\* a piece of the response arrives and more is to come
BytesArrive ==
    /\ Pending
    /\ silent_for > 0
    /\ ~TimedOut(silent_for)
    /\ fetch_pc' = "receiving"
    /\ silent_for' = 0
    /\ UNCHANGED <<vars, svars, cvars>>

\* the rest of Satellite(...) once requests.get has returned or raised
GetReturns(resp) ==
    /\ Constructed(satellite_name, <<start_time, end_time, time_step>>, resp)
    /\ fetch_pc' = "idle"
    /\ silent_for' = 0
    /\ UNCHANGED <<svars, cvars>>

\* the response is complete, or the connection failed
ResponseComplete(resp) ==
    /\ Pending
    /\ ~TimedOut(silent_for)
    /\ resp.status # "timeout"
    /\ GetReturns(resp)

\* the socket stayed silent for the timeout: requests raises Timeout, a
\* RequestException that fetchTLEData catches
TimeoutRaised ==
    /\ Pending
    /\ TimedOut(silent_for)
    /\ GetReturns([status |-> "timeout", lines |-> <<>>])

NextFetch ==
    \/ \E name \in Names, spec \in TimeSpecs : GetFromCache(name, spec)
    \/ \E name \in Names, spec \in TimeSpecs : RequestSent(name, spec)
    \/ SecondPasses
    \/ BytesArrive
    \/ \E resp \in Responses : ResponseComplete(resp)
    \/ TimeoutRaised

\* time passes and a due timeout is raised; the network promises nothing
FairFetch ==
    /\ WF_<<vars, svars, fvars>>(SecondPasses)
    /\ WF_<<vars, svars, fvars>>(TimeoutRaised)

SpecFetch == Init /\ [][NextFetch]_<<vars, svars, fvars>> /\ FairFetch

\* ------------------------------------------- two constructions, one tle_file
\* a write that puts the new text in place in one step
FileOnOpen_kept(file) == file

\* open(self.tle_file, 'w'): the file is created or cut to nothing at once
FileOnOpen(file) == <<>>

\* some other construction has opened the file for writing and has not
\* closed it
InWriteWindow(p) == \E q \in Procs \ {p} : get_pc[q] = "write"

\* line 72: the refresh decision, taken on the file as it is now
CheckCache(p) ==
    /\ get_pc[p] = "start"
    /\ get_pc' = [get_pc EXCEPT ![p] =
                    IF NeedsRefresh(cache_file, days_old) THEN "fetch"
                    ELSE "load"]
    /\ UNCHANGED <<get_lines, get_prior, get_read, vars, svars, fvars>>

\* line 74: fetchTLEData; line 76: nothing is saved when it returned []
Fetch(p, resp) ==
    /\ get_pc[p] = "fetch"
    /\ get_lines' = [get_lines EXCEPT ![p] = FetchTLEData(resp)]
    /\ get_pc' = [get_pc EXCEPT ![p] =
                    IF FetchTLEData(resp) # <<>> THEN "open" ELSE "load"]
    /\ UNCHANGED <<get_prior, get_read, vars, svars, fvars>>

\* line 124: with open(self.tle_file, 'w') as f
OpenForWrite(p) ==
    /\ get_pc[p] = "open"
    /\ get_prior' = [get_prior EXCEPT ![p] = cache_file]
    /\ cache_file' = FileOnOpen(cache_file)
    /\ days_old' = 0
    /\ get_pc' = [get_pc EXCEPT ![p] = "write"]
    /\ UNCHANGED <<get_lines, get_read, fields, track, earth_satellite,
                   getlog, calc_outcome, svars, fvars>>

\* what a file holds after text was written at its start: the text, and
\* behind it whatever another writer had put there beyond the text's length
WrittenOver(file, text) ==
    IF file = NoFile \/ Len(file) <= Len(text) THEN text
    ELSE text \o SubSeq(file, Len(text) + 1, Len(file))

\* lines 125-126: f.write puts the text in the buffer and leaving the with
\* block flushes it to the file
WriteAndClose(p) ==
    /\ get_pc[p] = "write"
    /\ cache_file' = WrittenOver(cache_file, SaveTLEData(get_lines[p]))
    /\ days_old' = 0
    /\ get_pc' = [get_pc EXCEPT ![p] = "load"]
    /\ UNCHANGED <<get_lines, get_prior, get_read, fields, track,
                   earth_satellite, getlog, calc_outcome, svars, fvars>>

\* line 82: load.tle_file(self.tle_file)[0]
LoadFile(p) ==
    /\ get_pc[p] = "load"
    /\ get_read' = [get_read EXCEPT ![p] =
                      [file |-> cache_file,
                       outcome |-> LoadOutcome(cache_file),
                       in_window |-> InWriteWindow(p)]]
    /\ get_pc' = [get_pc EXCEPT ![p] = "done"]
    /\ UNCHANGED <<get_lines, get_prior, vars, svars, fvars>>

NextConcurrent ==
    \/ \E p \in Procs : CheckCache(p)
    \/ \E p \in Procs, resp \in Responses : Fetch(p, resp)
    \/ \E p \in Procs : OpenForWrite(p)
    \/ \E p \in Procs : WriteAndClose(p)
    \/ \E p \in Procs : LoadFile(p)

SpecConcurrent == Init /\ [][NextConcurrent]_<<vars, svars, fvars, cvars>>

\* ------------------------------------------------------------ properties
Stale(file, age) == file = NoFile \/ age >= 10

RequestFailed(answer) == answer \in {"timeout", "http_error"}

ValidTimeSpec == end_time > start_time /\ time_step > 0

IsElementSet(sat) == sat.line1.kind = "1" /\ sat.line2.kind = "2"

\* the fetched record read as a satellite: name line, line 1, line 2
AsSatellite(rec) == [name |-> rec[1], line1 |-> rec[2], line2 |-> rec[3]]

WellFormed(rec) == Len(rec) = 3 /\ rec[2].kind = "1" /\ rec[3].kind = "2"

\* C1: a construction issues a network request exactly when the cache file
\* is missing or at least 10 days old; on a cache file younger than that it
\* issues none, writes nothing and takes the element set from the file.
C1_RefreshDecision ==
    [][ConstructStep =>
        /\ requests' \in {0, 1}
        /\ (requests' = 1) <=> Stale(cache_file, days_old)
        /\ ~Stale(cache_file, days_old) =>
              /\ writes' = 0
              /\ cache_file' = cache_file
              /\ days_old' = days_old
              /\ earth_satellite' = FirstSatellite(cache_file)]_vars

C1_Witness ==
    /\ get_outcome = "ok"
    /\ requests = 0
    /\ writes = 0
    /\ days_old = 9
    /\ IsElementSet(earth_satellite)

\* C2: a construction that has to refresh and whose fetch fails (the request
\* raises, or fetchTLEData finds no record) ends in an error and yields no
\* element set, also when a stale cache file exists.
C2_DataUnavailable ==
    [][(/\ ConstructStep
        /\ Stale(cache_file, days_old)
        /\ RequestFailed(response_status') \/ tle_lines' = <<>>)
       => (get_outcome' # "ok" /\ earth_satellite' = NoSatellite)]_vars

\* C3: with no cache file and a failed fetch the construction raises and
\* leaves no element set; a construction that succeeds always holds a
\* complete element set.
C3_HardFailure ==
    [][ConstructStep =>
        /\ (cache_file = NoFile
              /\ (RequestFailed(response_status') \/ tle_lines' = <<>>))
             => /\ get_outcome' # "ok"
                /\ earth_satellite' = NoSatellite
                /\ cache_file' = NoFile
        /\ get_outcome' = "ok" => IsElementSet(earth_satellite')]_vars

C3_Witness ==
    /\ get_outcome = "FileNotFoundError"
    /\ cache_file = NoFile
    /\ requests = 1
    /\ response_status = "timeout"
    /\ earth_satellite = NoSatellite

\* C4: a refresh whose payload arrived persists the record headed by
\* satellite_name, and selects and writes nothing when the payload has no
\* such record.
C4_SelectsRequestedName ==
    [][(ConstructStep /\ response_status' = "ok") =>
        IF name_in_payload'
        THEN /\ writes' = 1
             /\ tle_lines'[1] = NameLine(satellite_name')
             /\ cache_file' = SaveTLEData(tle_lines')
        ELSE /\ writes' = 0
             /\ tle_lines' = <<>>
             /\ cache_file' = cache_file]_vars

\* C5: on a valid time specification the grid has
\* floor((end - start) / step) + 1 instants.
C5_GridCount ==
    (calc_outcome = "ok" /\ ValidTimeSpec)
      => Len(times) = ((end_time - start_time) \div time_step) + 1

C5_Witness ==
    /\ calc_outcome = "ok"
    /\ start_time = 30
    /\ end_time = 150
    /\ time_step = 50
    /\ Len(times) = 3

\* C6: on a valid time specification the first grid instant is start_time.
C6_FirstIsStart ==
    (calc_outcome = "ok" /\ ValidTimeSpec) => times[1] = start_time

\* C7: latitudes, longitudes, altitudes and times always have one length,
\* and entry i of each array is the sub-point of the satellite at times[i].
C7_Aligned ==
    /\ Len(latitudes) = Len(times)
    /\ Len(longitudes) = Len(times)
    /\ Len(altitudes) = Len(times)
    /\ \A i \in 1..Len(times) :
          /\ latitudes[i] = SubLatitude(earth_satellite, times[i])
          /\ longitudes[i] = SubLongitude(earth_satellite, times[i])
          /\ altitudes[i] = SubElevation(earth_satellite, times[i])

C7_Witness ==
    /\ calc_outcome = "ok"
    /\ Len(times) = 4
    /\ times[4] = 150

\* C8: a calculation with time_step <= 0 or end_time <= start_time fails and
\* leaves no grid.
C8_InvalidTimeSpec ==
    (calc_outcome # "none" /\ ~ValidTimeSpec)
      => (calc_outcome # "ok" /\ times = <<>>)

\* C9: after a refresh wrote the cache, the element set loaded from the file
\* is the fetched record, a well-formed record always loads, and the track
\* calculated from the loaded set is the track of the fetched record.
C9_RoundTrip ==
    writes = 1 =>
        /\ WellFormed(tle_lines) => get_outcome = "ok"
        /\ get_outcome = "ok" =>
              /\ WellFormed(tle_lines)
              /\ earth_satellite = AsSatellite(tle_lines)
        /\ calc_outcome = "ok" =>
              /\ latitudes = Latitudes(AsSatellite(tle_lines), times)
              /\ longitudes = Longitudes(AsSatellite(tle_lines), times)
              /\ altitudes = Altitudes(AsSatellite(tle_lines), times)

C9_Witness ==
    /\ writes = 1
    /\ days_old = 0
    /\ get_outcome = "ok"
    /\ calc_outcome = "ok"
    /\ Len(times) = 4

\* C10: a calculation made while the element set is at least 10 days old
\* fails and produces no track.
C10_StalePropagationFails ==
    [][(CalculateStep /\ days_old >= 10) => calc_outcome' # "ok"]_vars

\* C11: a calculation that fails changes none of latitudes, longitudes,
\* altitudes and times.
C11_AllOrNothing ==
    [][(CalculateStep /\ calc_outcome' # "ok") => UNCHANGED track]_vars

C11_Witness ==
    /\ calc_outcome \in ZeroStepErrors
    /\ time_step = 0
    /\ times = <<>>
    /\ latitudes = <<>>

\* C12: the status list and the time list of a Schedule always have the same
\* length.
C12_StatusLengthIsGridLength == Len(status) = Len(time)

\* C13: every entry of a Schedule's status list is a key of its status_enum.
C13_StatusInEnum == \A i \in 1..Len(status) : status[i] \in status_enum

\* C14: a status write whose index is outside [0, len) or whose status is no
\* key of status_enum fails and leaves the status list unchanged.
C14_CheckedWrite ==
    [][(/\ WriteStep
        /\ \/ last_write'.index < 0
           \/ last_write'.index >= Len(status)
           \/ last_write'.value \notin status_enum)
       => (last_write'.outcome # "ok" /\ status' = status)]_<<vars, svars>>

\* C15: every Eclipse holds an index range with
\* 0 <= first <= last < length of the parent timeline.
C15_EclipseRangeValid ==
    schedule_indices # <<>> =>
        /\ 0 <= schedule_indices[1]
        /\ schedule_indices[1] <= schedule_indices[2]
        /\ schedule_indices[2] < Len(time)

\* C16: one construction issues at most one network request, and exactly
\* one when the request fails or finds nothing.
C16_NoRetry ==
    /\ requests <= 1
    /\ response_status # "none" => requests = 1
    /\ response_status = "none" => requests = 0

C16_Witness ==
    /\ requests = 1
    /\ response_status = "http_error"
    /\ tle_lines = <<>>

\* C18: on a valid time specification consecutive grid instants are
\* time_step apart, the last instant is not after end_time, and it is
\* end_time only if end_time - start_time is a multiple of time_step.
C18_EvenAndNoOvershoot ==
    (calc_outcome = "ok" /\ ValidTimeSpec) =>
        /\ \A i \in 1..(Len(times) - 1) : times[i + 1] - times[i] = time_step
        /\ times[Len(times)] <= end_time
        /\ times[Len(times)] = end_time
             => (end_time - start_time) % time_step = 0

C18_Witness ==
    /\ calc_outcome = "ok"
    /\ ValidTimeSpec
    /\ (end_time - start_time) % time_step # 0
    /\ Len(times) = 3
    /\ times[3] < end_time

\* C19: the cache file written by a refresh holds one complete record: a
\* name line followed by its line 1 and line 2.
C19_CacheHoldsCompleteRecord ==
    writes = 1 =>
        /\ WellFormed(tle_lines)
        /\ WellFormed(ReadLines(cache_file, NoLine))
        /\ ReadLines(cache_file, NoLine)[1].kind = "name"

\* C20: on a cache hit the element set that is returned is the record of
\* the satellite that was asked for.
C20_CacheHitIsRequestedSatellite ==
    (get_outcome = "ok" /\ requests = 0)
      => earth_satellite.name = NameLine(satellite_name)

\* C17: a construction that is waiting for the network eventually returns,
\* whatever the network does.
C17_GetTerminates == Pending ~> (fetch_pc = "idle")

\* C21: a construction writes the cache file at most once, and only what a
\* successful request returned for the name fetchTLEData looks for; when the
\* request fails or no record is found the file is left as it was.
C21_WriteOnlyAfterSuccessfulFetch ==
    [][ConstructStep =>
          /\ writes' <= 1
          /\ writes' = 1 =>
                /\ response_status' = "ok"
                /\ tle_lines' # <<>>
                /\ tle_lines'[1] = NameLine(FetchName)
                /\ cache_file' = SaveTLEData(tle_lines')
          /\ (RequestFailed(response_status') \/ tle_lines' = <<>>) =>
                /\ writes' = 0
                /\ cache_file' = cache_file]_vars

C21_Witness ==
    /\ response_status = "ok"
    /\ tle_lines = <<>>
    /\ writes = 0
    /\ cache_file = SaveTLEData(Record("ISS", OldRev))
    /\ days_old >= max_age_days

\* C22: with two constructions on one tle_file, a construction that writes
\* nothing itself and loads the file while the other has it open for
\* writing finds neither the file as it was before the other opened it nor
\* the text the other is about to write, and gets no element set from it.
C22_TornRead ==
    \A p \in Procs : \A q \in Procs \ {p} :
        (get_read[p].in_window /\ get_lines[p] = <<>>) =>
            /\ get_read[p].file # get_prior[q]
            /\ get_read[p].file # SaveTLEData(get_lines[q])
            /\ get_read[p].outcome = "IndexError"

C22_Witness ==
    /\ get_read["a"].in_window
    /\ get_lines["a"] = <<>>
    /\ get_read["a"].outcome = "IndexError"
    /\ get_prior["b"] = SaveTLEData(Record("CUTE", OldRev))
    /\ get_lines["b"] = Record("CUTE", NewRev)
    /\ get_pc["b"] = "done"
    /\ get_read["b"].outcome = "ok"

====
